---- MODULE Spec2Model ----
(***************************************************************************)
(* Model of the experiment web application in src/app.py: one browser      *)
(* session walking through /start, /survey, /instructions, /round/n,       *)
(* /results, and an administrator using the /admin routes, over the two    *)
(* tables experiment_state and participants.                               *)
(*                                                                         *)
(* Conventions.                                                            *)
(*   - Python's None / a missing key is the empty tuple <<>>; a present    *)
(*     value v is the one-element tuple <<v>> (None, Some, Get).           *)
(*   - A form or query string is a sequence of one-character strings, so   *)
(*     that int() and str.strip() are computed, character by character.    *)
(*   - wealth and final_payoff are Python floats that are multiples of     *)
(*     0.5; they are held as the number of half units (2 * value).         *)
(*     average_x is held as the number of tenths (10 * value).             *)
(***************************************************************************)
EXTENDS Integers, Sequences, FiniteSets, TLC

VARIABLES
    ADMIN_KEY,         \* os.getenv("ADMIN_KEY"): None or Some(string)
    experiment_state,  \* the row ExperimentState id=1
    participants,      \* the table participants: id -> row
    session,           \* the browser's Flask session
    uuids,             \* how many uuid4() values have been generated
    drawn,             \* history: the R drawn by /start for each pid
    instructed,        \* history: /instructions was served to the current pid
    finalized,         \* history: what the last /results of the session persisted
    deleted,           \* history: the session's pid, once an /admin/reset deleted its row
    detours,           \* how many requests so far were off the straight walk
    request,           \* the last request handled
    response           \* the response to it

vars == <<ADMIN_KEY, experiment_state, participants, session, uuids, drawn,
          instructed, finalized, deleted, detours, request, response>>

-----------------------------------------------------------------------------
(* Bounds of the model *)

\* At most this many requests of a run leave the straight walk-through
\* (start with the draw R = PlainR, survey, instructions, rounds 1..10 in
\* order with the plain form and a lost draw, results; and the
\* administrator's authorized open, close and reset that change something).
MaxDetours == 1

\* At most this many participant ids are allocated by /start.
MaxPids == 2

-----------------------------------------------------------------------------
(* Program constants *)

NumRounds == 10     \* rounds 1..10
MaxX == 100         \* x is clamped to [0, 100]
Endowment == 100    \* wealth = 100 - x + ...

-----------------------------------------------------------------------------
(* Option values *)

None == <<>>
Some(v) == <<v>>
Get(o) == o[1]

\* Python's `a or b` for an optional string: b when a is None or "".
OrStr(a, b) == IF a = None \/ Get(a) = <<>> THEN b ELSE Get(a)

-----------------------------------------------------------------------------
(* Strings: str.strip() and int() *)

DigitChars == <<"0", "1", "2", "3", "4", "5", "6", "7", "8", "9">>
IsDigit(c) == \E i \in 1..10 : DigitChars[i] = c
DigitVal(c) == (CHOOSE i \in 1..10 : DigitChars[i] = c) - 1
IsSpace(c) == c \in {" ", "\t", "\n"}

RECURSIVE LStrip(_)
LStrip(s) == IF s # <<>> /\ IsSpace(Head(s)) THEN LStrip(Tail(s)) ELSE s

RECURSIVE RStrip(_)
RStrip(s) ==
    IF s # <<>> /\ IsSpace(s[Len(s)]) THEN RStrip(SubSeq(s, 1, Len(s) - 1)) ELSE s

\* str.strip()
Strip(s) == RStrip(LStrip(s))

\* The digits part of an int() literal: digits, with single underscores
\* allowed between digits.
IsIntBody(b) ==
    /\ b # <<>>
    /\ IsDigit(b[1]) /\ IsDigit(b[Len(b)])
    /\ \A i \in 1..Len(b) : IsDigit(b[i]) \/ b[i] = "_"
    /\ \A i \in 1..(Len(b) - 1) : ~(b[i] = "_" /\ b[i + 1] = "_")

RECURSIVE DigitsValue(_, _)
DigitsValue(b, acc) ==
    IF b = <<>> THEN acc
    ELSE IF Head(b) = "_" THEN DigitsValue(Tail(b), acc)
    ELSE DigitsValue(Tail(b), 10 * acc + DigitVal(Head(b)))

\* int(s) for a str s: Some(value), or None where Python raises ValueError.
PyInt(s) ==
    LET t == Strip(s)
        signed == t # <<>> /\ t[1] \in {"+", "-"}
        b == IF signed THEN Tail(t) ELSE t
    IN  IF ~IsIntBody(b) THEN None
        ELSE IF signed /\ t[1] = "-" THEN Some(0 - DigitsValue(b, 0))
        ELSE Some(DigitsValue(b, 0))

-----------------------------------------------------------------------------
(* Requests and responses *)

Loc(endpoint, n) == [endpoint |-> endpoint, n |-> n]
NoLoc == Loc("", 0)
NoBody == [template |-> ""]

\* redirect(url_for(endpoint, n=n))
Redirect(endpoint, n) == [status |-> 302, location |-> Loc(endpoint, n), body |-> NoBody]
\* render_template(...): body holds the template's name and its context
Render(body) == [status |-> 200, location |-> NoLoc, body |-> body]
\* abort(code), and 500 for an exception no handler catches
Abort(code) == [status |-> code, location |-> NoLoc, body |-> NoBody]
ServerError == Abort(500)

Req(endpoint, method, n, args, form) ==
    [endpoint |-> endpoint, method |-> method, n |-> n, args |-> args, form |-> form]
NoArgs == [key |-> None]
NoForm == [key |-> None]

-----------------------------------------------------------------------------
(* Session helpers *)

EmptyDict == <<>>
EmptySession == [pid |-> None, state |-> None, flashes |-> 0]

DefaultState == [rounds |-> <<>>, R |-> None, demographics |-> EmptyDict]

\* require_pid() that finds an id in every session
MutAnyPid == IF session.pid = None THEN Some(0) ELSE session.pid

\* require_pid() that also asks for an open experiment
MutGatedPid == IF experiment_state.is_open THEN session.pid ELSE None

\* require_pid(): session.get("pid")
require_pid == session.pid

\* current_state(): session.setdefault("state", {...})
current_state == IF session.state = None THEN DefaultState ELSE Get(session.state)

\* ensure_state(): the row with id 1, which exists since boot
ensure_state == experiment_state

\* experiment_open_required()
experiment_open_required == ensure_state.is_open

-----------------------------------------------------------------------------
(* The straight walk-through, and the detours from it *)

Rounds == 1..NumRounds

RoundsOf(rounds) == {rounds[i].round : i \in 1..Len(rounds)}

\* The first round in 1..10 that has no record (11 when all have one).
FirstMissing(rounds) ==
    CHOOSE n \in 1..(NumRounds + 1) :
        /\ n \notin RoundsOf(rounds)
        /\ \A m \in 1..(n - 1) : m \in RoundsOf(rounds)

Surveyed == session.state # None /\ Get(session.state).demographics # EmptyDict

\* A request on the straight walk is free; any other one is a detour and
\* is counted.
Walk(plain) ==
    /\ detours < MaxDetours \/ plain
    /\ detours' = IF plain THEN detours ELSE detours + 1

Str40 == <<"4", "0">>
Str0 == <<"0">>
Str21 == <<"2", "1">>
StrAnn == <<"A", "n", "n">>
StrF == <<"F">>
StrW == <<"W">>

PlainSurveyForm ==
    [name |-> Some(StrAnn), gender |-> Some(StrF), age |-> Some(Str21), race |-> Some(StrW)]
PlainRoundForm == [x |-> Some(Str40), time_ms |-> Some(Str0)]

-----------------------------------------------------------------------------
(* The sets the requests' inputs are drawn from *)

StrEmpty == <<>>
StrBlank == <<" ", " ">>
StrAbc == <<"a", "b", "c">>
Str150 == <<"1", "5", "0">>
StrMinus5 == <<"-", "5">>
Str25 == <<" ", "2", "5">>
Str7 == <<"7">>
StrSecret == <<"s", "3", "c", "r", "e", "t">>
StrWrong == <<"s", "3", "c", "r", "e", "T">>
StrOpen == <<"o", "p", "e", "n">>
StrClose == <<"c", "l", "o", "s", "e">>
StrToggle == <<"t", "o", "g", "g", "l", "e">>

\* <int:n> of /round/<int:n>: the converter takes no sign
RoundArgs == 0..(NumRounds + 1)

\* The draw of R on the straight walk, and the round the odd forms are sent to
PlainR == 2
OddRound == PlainR

OddRoundForms ==
    {[PlainRoundForm EXCEPT !.x = v] : v \in {None, Some(Str25), Some(Str150),
                                              Some(StrMinus5), Some(StrAbc)}}
    \cup {[PlainRoundForm EXCEPT !.time_ms = v] : v \in {None, Some(Str7), Some(StrAbc)}}

\* The round submissions <<n, form, win>> that are tried: every n with the
\* plain form and a lost draw, and round OddRound with the odd forms and a
\* won draw.
RoundPosts ==
    {<<n, PlainRoundForm, FALSE>> : n \in RoundArgs}
    \cup {<<OddRound, form, FALSE>> : form \in OddRoundForms}
    \cup {<<OddRound, form, TRUE>> : form \in {PlainRoundForm, [PlainRoundForm EXCEPT !.x = Some(Str25)]}}

SurveyForms ==
    {PlainSurveyForm}
    \cup {[PlainSurveyForm EXCEPT !.name = v] : v \in {None, Some(StrBlank)}}
    \cup {[PlainSurveyForm EXCEPT !.gender = None, !.race = None]}
    \cup {[PlainSurveyForm EXCEPT !.age = v] : v \in {None, Some(StrEmpty), Some(StrAbc)}}

KeyInputs == {None, Some(StrEmpty), Some(StrSecret), Some(StrWrong)}
ActionInputs == {None, Some(StrOpen), Some(StrClose), Some(StrToggle)}
EnvKeys == {None, Some(StrEmpty), Some(StrSecret)}

-----------------------------------------------------------------------------
(* Initial state: after boot (db.create_all, ensure_state) on an empty     *)
(* database, with a browser that holds no session.                         *)

Title == "ECON 3310 Experiment 2"

Init ==
    /\ ADMIN_KEY \in EnvKeys
    /\ experiment_state = [is_open |-> TRUE, title |-> Title]
    /\ participants = <<>>
    /\ session = EmptySession
    /\ uuids = 0
    /\ drawn = <<>>
    /\ instructed = FALSE
    /\ finalized = None
    /\ deleted = {}
    /\ detours = 0
    /\ request = Req("", "", 0, NoArgs, NoForm)
    /\ response = Abort(0)

Handle(req, resp) == request' = req /\ response' = resp

\* Nothing but the request, the response and the detour count changes.
NoEffect ==
    UNCHANGED <<ADMIN_KEY, experiment_state, participants, session, uuids, drawn,
                instructed, finalized, deleted>>

-----------------------------------------------------------------------------
(* Player routes *)

\* GET /
Index ==
    /\ Walk(FALSE)
    /\ Handle(Req("index", "GET", 0, NoArgs, NoForm),
              Render([template |-> "index.html", open |-> ensure_state.is_open,
                      title |-> ensure_state.title]))
    /\ NoEffect

\* start() with the gate left out
MutStartAllowed == TRUE

\* start(): the gate
StartAllowed == experiment_open_required

\* start() without session.clear(): current_state() finds the old state
MutStartState == current_state

\* start(): session.clear(), then st = current_state() of the empty session
StartState == DefaultState

\* POST /start; R is the draw of random.randint(1, 10)
Start(R) ==
    /\ Walk(R = PlainR /\ require_pid = None /\ StartAllowed)
    /\ IF ~StartAllowed
       THEN /\ Handle(Req("start", "POST", 0, NoArgs, NoForm), Redirect("index", 0))
            /\ session' = [session EXCEPT !.flashes = @ + 1]
            /\ UNCHANGED <<ADMIN_KEY, experiment_state, participants, uuids, drawn,
                           instructed, finalized, deleted>>
       ELSE /\ uuids < MaxPids
            /\ LET pid == uuids + 1
                   st == [StartState EXCEPT !.R = Some(R)]
               IN  /\ session' = [pid |-> Some(pid), state |-> Some(st), flashes |-> 0]
                   /\ uuids' = pid
                   /\ drawn' = Append(drawn, R)
            /\ instructed' = FALSE
            /\ finalized' = None
            /\ deleted' = {}
            /\ Handle(Req("start", "POST", 0, NoArgs, NoForm), Redirect("survey", 0))
            /\ UNCHANGED <<ADMIN_KEY, experiment_state, participants>>

\* survey(): name = (form.get("name") or "").strip() or None
SurveyName(v) ==
    LET s == Strip(OrStr(v, StrEmpty)) IN IF s = StrEmpty THEN None ELSE Some(s)

\* survey(): int(age) if age else None; [ok, age], ok false where int() raises
SurveyAge(v) ==
    LET age == OrStr(v, StrEmpty)
    IN  IF age = StrEmpty THEN [ok |-> TRUE, age |-> None]
        ELSE [ok |-> PyInt(age) # None, age |-> PyInt(age)]

\* GET /survey
SurveyGet ==
    /\ Walk(FALSE)
    /\ Handle(Req("survey", "GET", 0, NoArgs, NoForm),
              IF require_pid = None THEN Redirect("index", 0)
              ELSE Render([template |-> "survey.html"]))
    /\ NoEffect

\* POST /survey
SurveyPost(form) ==
    /\ Walk(/\ form = PlainSurveyForm
            /\ require_pid # None /\ ~Surveyed /\ ~instructed
            /\ current_state.rounds = <<>>)
    /\ LET req == Req("survey", "POST", 0, NoArgs, form)
           st == current_state
           a == SurveyAge(form.age)
       IN  IF require_pid = None
           THEN Handle(req, Redirect("index", 0)) /\ UNCHANGED session
           ELSE IF ~a.ok
           THEN /\ Handle(req, ServerError)
                /\ session' = [session EXCEPT !.state = Some(st)]
           ELSE /\ Handle(req, Redirect("instructions", 0))
                /\ session' = [session EXCEPT !.state = Some(
                       [st EXCEPT !.demographics = Some(
                           [name |-> SurveyName(form.name),
                            gender |-> OrStr(form.gender, StrEmpty),
                            age |-> a.age,
                            race |-> OrStr(form.race, StrEmpty)])])]
    /\ UNCHANGED <<ADMIN_KEY, experiment_state, participants, uuids, drawn, instructed,
                   finalized, deleted>>

\* GET /instructions
Instructions ==
    /\ Walk(/\ require_pid # None /\ Surveyed /\ ~instructed
            /\ current_state.rounds = <<>>)
    /\ Handle(Req("instructions", "GET", 0, NoArgs, NoForm),
              IF require_pid = None THEN Redirect("index", 0)
              ELSE Render([template |-> "instructions.html"]))
    /\ instructed' = (instructed \/ require_pid # None)
    /\ UNCHANGED <<ADMIN_KEY, experiment_state, participants, session, uuids, drawn,
                   finalized, deleted>>

-----------------------------------------------------------------------------
(* /round/<n> *)

Min(a, b) == IF a < b THEN a ELSE b
Max(a, b) == IF a > b THEN a ELSE b

\* round_page(): try: x = int(form.get("x") or "0") except ValueError: x = 0
ParseX(v) == LET i == PyInt(OrStr(v, Str0)) IN IF i = None THEN 0 ELSE Get(i)

\* The clamp without its lower end: x = min(100, x)
MutClamp(x) == Min(MaxX, x)

\* round_page(): x = max(0, min(100, x))
Clamp(x) == Max(0, Min(MaxX, x))

\* round_page(): time_ms = int(form.get("time_ms") or "0"); None where int() raises
ParseTime(v) == PyInt(OrStr(v, Str0))

\* round_page(): wealth = 100 - x + (2.5 * x if win else 0.0), in half units
Wealth(x, win) == 2 * (Endowment - x) + (IF win THEN 5 * x ELSE 0)

\* The search that stops at the first record, whatever its round
MutIndexOf(rounds, n) == IF rounds # <<>> THEN 1 ELSE 0

\* The place of the first record of round n in rounds, 0 when there is none
\* (for r in rounds: if r["round"] == n; next((r for r in rounds if ...), None)).
IndexOf(rounds, n) ==
    IF \E i \in 1..Len(rounds) : rounds[i].round = n
    THEN CHOOSE i \in 1..Len(rounds) :
             /\ rounds[i].round = n
             /\ \A j \in 1..(i - 1) : rounds[j].round # n
    ELSE 0

\* The upsert without its search: always append
MutUpsertRound(rounds, rec) == Append(rounds, rec)

\* round_page(): update the first record of round n, else append one
UpsertRound(rounds, rec) ==
    LET i == IndexOf(rounds, rec.round)
    IN  IF i # 0 THEN [rounds EXCEPT ![i] = rec] ELSE Append(rounds, rec)

\* The place the record at i takes when rounds is sorted by round, stably:
\* after the records of a smaller round and the earlier ones of the same round
SortPlace(rounds, i) ==
    1 + Cardinality({j \in 1..Len(rounds) :
                        \/ rounds[j].round < rounds[i].round
                        \/ rounds[j].round = rounds[i].round /\ j < i})

\* list.sort(key=lambda r: r["round"]): a stable sort
SortRounds(rounds) ==
    [k \in 1..Len(rounds) |->
        rounds[CHOOSE i \in 1..Len(rounds) : SortPlace(rounds, i) = k]]

\* The guard one round wide: if n < 0 or n > 10
MutRoundInRange(n) == ~(n < 0 \/ n > NumRounds)

\* round_page(): the guard on <n>
RoundInRange(n) == ~(n < 1 \/ n > NumRounds)

\* GET /round/<n>
RoundGet(n) ==
    /\ Walk(FALSE)
    /\ LET req == Req("round_page", "GET", n, NoArgs, NoForm)
           st == current_state
           i == IndexOf(st.rounds, n)
       IN  IF require_pid = None
           THEN Handle(req, Redirect("index", 0)) /\ UNCHANGED session
           ELSE IF ~RoundInRange(n)
           THEN Handle(req, Abort(404)) /\ UNCHANGED session
           ELSE /\ Handle(req, Render([template |-> "round.html", n |-> n,
                                       prefill |-> IF i # 0 THEN st.rounds[i].x ELSE 0]))
                /\ session' = [session EXCEPT !.state = Some(st)]
    /\ UNCHANGED <<ADMIN_KEY, experiment_state, participants, uuids, drawn, instructed,
                   finalized, deleted>>

\* round_page(n) for a POST; win is the draw of random.choice([True, False])
round_page(n, form, win) ==
    /\ LET req == Req("round_page", "POST", n, NoArgs, form)
           st == current_state
           x == Clamp(ParseX(form.x))
           time_ms == ParseTime(form.time_ms)
       IN  IF require_pid = None
           THEN Handle(req, Redirect("index", 0)) /\ UNCHANGED <<session, finalized>>
           ELSE IF ~RoundInRange(n)
           THEN Handle(req, Abort(404)) /\ UNCHANGED <<session, finalized>>
           ELSE IF time_ms = None
           THEN /\ Handle(req, ServerError)
                /\ session' = [session EXCEPT !.state = Some(st)]
                /\ UNCHANGED finalized
           ELSE \E rec \in {[round |-> n, x |-> x, win |-> win,
                                wealth |-> Wealth(x, win), time_ms |-> Get(time_ms)]} :
                \E rounds \in {UpsertRound(st.rounds, rec)} :
                    /\ Handle(req, Redirect("round_outcome", n))
                    /\ session' = [session EXCEPT !.state = Some(
                                       [st EXCEPT !.rounds = SortRounds(rounds)])]
                    /\ finalized' = None
    /\ UNCHANGED <<ADMIN_KEY, experiment_state, participants, uuids, drawn, instructed,
                   deleted>>

\* POST /round/<n>
RoundPost(n, form, win) ==
    /\ Walk(/\ ~win
            /\ form = PlainRoundForm
            /\ require_pid # None
            /\ n = FirstMissing(current_state.rounds)
            /\ n > 1 \/ (Surveyed /\ instructed))
    /\ round_page(n, form, win)

\* round_outcome(): the link shown on the outcome page
NextUrl(n) == IF n < NumRounds THEN Loc("round_page", n + 1) ELSE Loc("results", 0)

\* round_outcome(n)
round_outcome(n) ==
    /\ LET req == Req("round_outcome", "GET", n, NoArgs, NoForm)
           st == current_state
           i == IndexOf(st.rounds, n)
       IN  IF require_pid = None
           THEN Handle(req, Redirect("index", 0)) /\ UNCHANGED session
           ELSE /\ Handle(req, IF i = 0 THEN Redirect("round_page", n)
                               ELSE Render([template |-> "outcome.html", r |-> st.rounds[i],
                                            n |-> n, next_url |-> NextUrl(n)]))
                /\ session' = [session EXCEPT !.state = Some(st)]
    /\ UNCHANGED <<ADMIN_KEY, experiment_state, participants, uuids, drawn, instructed,
                   finalized, deleted>>

\* GET /round/<n>/outcome
RoundOutcome(n) == Walk(FALSE) /\ round_outcome(n)

-----------------------------------------------------------------------------
(* /results *)

RECURSIVE SumX(_)
SumX(rounds) == IF rounds = <<>> THEN 0 ELSE Head(rounds).x + SumX(Tail(rounds))

\* results(): average_x = (sum(xs) / len(xs)) if xs else 0.0, in tenths
AverageX(rounds) ==
    IF rounds = <<>> THEN 0 ELSE (10 * SumX(rounds)) \div Len(rounds)

\* results(): R = st.get("R") or 1
ChosenRound(st) == IF st.R = None \/ Get(st.R) = 0 THEN 1 ELSE Get(st.R)

\* The lookup one round off: r["round"] == R + 1
MutFinalPayoff(rounds, R) ==
    LET i == IndexOf(rounds, R + 1) IN IF i = 0 THEN 0 ELSE rounds[i].wealth

\* results(): next((r["wealth"] for r in rounds if r["round"] == R), 0.0)
FinalPayoff(rounds, R) ==
    LET i == IndexOf(rounds, R) IN IF i = 0 THEN 0 ELSE rounds[i].wealth

\* The guard one round short: len(rounds) < 9
MutComplete(rounds) == ~(Len(rounds) < NumRounds - 1)

\* results(): the guard against skipping ahead
Complete(rounds) == ~(Len(rounds) < NumRounds)

\* results(): the round an incomplete session is sent to
ResultsTarget(rounds) == Len(rounds) + 1

\* dict.get(key) of the session's demographics
DemoGet(d, key) == IF d = EmptyDict THEN None ELSE Some(Get(d)[key])

\* results(): the row written for the session
ParticipantRow(st) ==
    LET d == st.demographics
        R == ChosenRound(st)
    IN  [name |-> IF d = EmptyDict THEN None ELSE Get(d).name,
         gender |-> DemoGet(d, "gender"),
         age |-> IF d = EmptyDict THEN None ELSE Get(d).age,
         race |-> DemoGet(d, "race"),
         chosen_round |-> R,
         rounds |-> st.rounds,
         average_x |-> AverageX(st.rounds),
         final_payoff |-> FinalPayoff(st.rounds, R)]

\* results()
results ==
    /\ LET req == Req("results", "GET", 0, NoArgs, NoForm)
           st == current_state
           row == ParticipantRow(st)
       IN  IF require_pid = None
           THEN /\ Handle(req, Redirect("index", 0))
                /\ UNCHANGED <<session, participants, finalized>>
           ELSE IF ~Complete(st.rounds)
           THEN /\ Handle(req, Redirect("round_page", ResultsTarget(st.rounds)))
                /\ session' = [session EXCEPT !.state = Some(st)]
                /\ UNCHANGED <<participants, finalized>>
           ELSE /\ Handle(req, Render([template |-> "results.html", R |-> row.chosen_round,
                                       rounds |-> row.rounds, average_x |-> row.average_x,
                                       final_payoff |-> row.final_payoff]))
                /\ session' = [session EXCEPT !.state = Some(st)]
                /\ participants' = (Get(require_pid) :> row) @@ participants
                /\ finalized' = Some([row |-> participants'[Get(require_pid)],
                                       rows |-> Cardinality(DOMAIN participants')])
    /\ UNCHANGED <<ADMIN_KEY, experiment_state, uuids, drawn, instructed, deleted>>

\* GET /results
Results == Walk(require_pid # None) /\ results

-----------------------------------------------------------------------------
(* Admin routes *)

\* require_admin() without `not expected`: if key != expected: abort(403)
MutRequireAdmin(args, form) ==
    LET key == OrStr(args.key, OrStr(form.key, StrEmpty))
    IN  ADMIN_KEY # None /\ key = Get(ADMIN_KEY)

\* require_admin(): TRUE when the request passes, FALSE when it aborts with 403.
\*   key = args.get("key") or form.get("key") or ""
\*   expected = os.getenv("ADMIN_KEY")
\*   if not expected or key != expected: abort(403)
RequireAdmin(args, form) ==
    LET key == OrStr(args.key, OrStr(form.key, StrEmpty))
        expected == ADMIN_KEY
    IN  ~(expected = None \/ Get(expected) = StrEmpty \/ key # Get(expected))

RECURSIVE SumLen(_, _)
SumLen(rows, ids) ==
    IF ids = {} THEN 0
    ELSE LET p == CHOOSE q \in ids : TRUE
         IN  Len(rows[p].rounds) + SumLen(rows, ids \ {p})

\* sum(len(p.rounds or []) for p in Participant.query.all())
DecisionCount(rows) == SumLen(rows, DOMAIN rows)

\* GET /admin
AdminHome(args) ==
    /\ Walk(FALSE)
    /\ Handle(Req("admin_home", "GET", 0, args, NoForm),
              IF ~RequireAdmin(args, NoForm) THEN Abort(403)
              ELSE Render([template |-> "admin.html", state |-> ensure_state,
                           counts |-> [participants |-> Cardinality(DOMAIN participants),
                                       decisions |-> DecisionCount(participants)],
                           key |-> args.key]))
    /\ NoEffect

\* admin_state(): the row after the action
ApplyAction(st, action) ==
    IF action = Some(StrOpen) THEN [st EXCEPT !.is_open = TRUE]
    ELSE IF action = Some(StrClose) THEN [st EXCEPT !.is_open = FALSE]
    ELSE st

\* POST /admin/state
AdminState(args, form) ==
    /\ Walk(/\ args = NoArgs
            /\ RequireAdmin(args, form)
            /\ ApplyAction(ensure_state, form.action) # ensure_state)
    /\ LET req == Req("admin_state", "POST", 0, args, form)
       IN  IF ~RequireAdmin(args, form)
           THEN Handle(req, Abort(403)) /\ UNCHANGED experiment_state
           ELSE /\ Handle(req, Redirect("admin_home", 0))
                /\ experiment_state' = ApplyAction(ensure_state, form.action)
    /\ UNCHANGED <<ADMIN_KEY, participants, session, uuids, drawn, instructed,
                   finalized, deleted>>

\* POST /admin/reset
AdminReset(args, form) ==
    /\ Walk(args = NoArgs /\ RequireAdmin(args, form) /\ DOMAIN participants # {})
    /\ LET req == Req("admin_reset", "POST", 0, args, form)
       IN  IF ~RequireAdmin(args, form)
           THEN Handle(req, Abort(403)) /\ UNCHANGED <<participants, deleted>>
           ELSE /\ Handle(req, Redirect("admin_home", 0))
                /\ participants' = <<>>
                /\ deleted' = IF session.pid # None
                                  /\ Get(session.pid) \in DOMAIN participants
                               THEN {Get(session.pid)}
                               ELSE deleted
    /\ UNCHANGED <<ADMIN_KEY, experiment_state, session, uuids, drawn, instructed,
                   finalized>>

\* GET /admin/export: the CSV has one line per row of participants
AdminExport(args) ==
    /\ Walk(FALSE)
    /\ Handle(Req("admin_export", "GET", 0, args, NoForm),
              IF ~RequireAdmin(args, NoForm) THEN Abort(403)
              ELSE Render([template |-> "participants.csv",
                           rows |-> Cardinality(DOMAIN participants)]))
    /\ NoEffect

\* str(n) for an int n
RECURSIVE FormatNat(_)
FormatNat(n) ==
    IF n < 10 THEN <<DigitChars[n + 1]>>
    ELSE Append(FormatNat(n \div 10), DigitChars[(n % 10) + 1])

FormatInt(n) == IF n < 0 THEN <<"-">> \o FormatNat(0 - n) ELSE FormatNat(n)

\* The en dash of the bin labels, one character
EnDash == "ndash"

\* k.split(EnDash)[0]: the part of k before the first en dash
RECURSIVE SplitHead(_)
SplitHead(k) ==
    IF k = <<>> \/ Head(k) = EnDash THEN <<>> ELSE <<Head(k)>> \o SplitHead(Tail(k))

\* hist_by_bin.low(): int(k.split(EnDash)[0]); every key starts with an int
Low(k) == Get(PyInt(SplitHead(k)))

\* admin_stats_json(): the x of every round of every row, row after row (the
\* order of the rows is the database's; a histogram does not depend on it)
RECURSIVE DecisionsFrom(_, _)
DecisionsFrom(rows, ids) ==
    IF ids = {} THEN <<>>
    ELSE LET p == CHOOSE q \in ids : \A o \in ids : q <= o
             xs == [i \in 1..Len(rows[p].rounds) |-> rows[p].rounds[i].x]
         IN  xs \o DecisionsFrom(rows, ids \ {p})

Decisions(rows) == DecisionsFrom(rows, DOMAIN rows)

\* The bin's lower bound without the multiplication: b = x // bin_size
MutBinLow(x, bin_size) == x \div bin_size

\* hist_by_bin(): b = (x // bin_size) * bin_size
BinLow(x, bin_size) == (x \div bin_size) * bin_size

\* hist_by_bin(): key = f"{int(b)}{EnDash}{int(b + bin_size - 1)}"
BinKey(b, bin_size) == FormatInt(b) \o <<EnDash>> \o FormatInt(b + bin_size - 1)

\* hist_by_bin(): bins[key] += 1; bins holds its keys in the order they came
AddToBin(bins, key) ==
    IF \E i \in 1..Len(bins) : bins[i].bin = key
    THEN [i \in 1..Len(bins) |->
             IF bins[i].bin = key THEN [bins[i] EXCEPT !.count = @ + 1] ELSE bins[i]]
    ELSE Append(bins, [bin |-> key, count |-> 1])

RECURSIVE CountBins(_, _, _)
CountBins(decisions, bin_size, bins) ==
    IF decisions = <<>> THEN bins
    ELSE CountBins(Tail(decisions), bin_size,
                   AddToBin(bins, BinKey(BinLow(Head(decisions), bin_size), bin_size)))

\* sorted(bins.keys(), key=low): a stable sort, by insertion
RECURSIVE InsertBin(_, _)
InsertBin(sorted, b) ==
    IF sorted = <<>> THEN <<b>>
    ELSE IF Low(sorted[Len(sorted)].bin) <= Low(b.bin) THEN Append(sorted, b)
    ELSE Append(InsertBin(SubSeq(sorted, 1, Len(sorted) - 1), b), sorted[Len(sorted)])

RECURSIVE SortBinsFrom(_, _)
SortBinsFrom(bins, sorted) ==
    IF bins = <<>> THEN sorted
    ELSE SortBinsFrom(Tail(bins), InsertBin(sorted, Head(bins)))

\* admin_stats_json.hist_by_bin(bin_size)
hist_by_bin(decisions, bin_size) ==
    SortBinsFrom(CountBins(decisions, bin_size, <<>>), <<>>)

\* GET /admin/stats.json
AdminStats(args) ==
    /\ Walk(FALSE)
    /\ Handle(Req("admin_stats_json", "GET", 0, args, NoForm),
              IF ~RequireAdmin(args, NoForm) THEN Abort(403)
              ELSE LET decisions == Decisions(participants)
                   IN  Render([template |-> "stats.json",
                               hist_5 |-> hist_by_bin(decisions, 5),
                               hist_10 |-> hist_by_bin(decisions, 10),
                               hist_20 |-> hist_by_bin(decisions, 20),
                               decision_count |-> Len(decisions),
                               participant_count |-> Cardinality(DOMAIN participants)]))
    /\ NoEffect

-----------------------------------------------------------------------------
(* Specification *)

\* The key of an admin request comes in the query string (args) or in the
\* form; <<args, form>> pairs that are tried.
KeyArgs == [key : KeyInputs]
StateForms ==
    [key : KeyInputs, action : {Some(StrClose)}]
    \cup [key : {Some(StrSecret)}, action : ActionInputs]
StateReqs ==
    {<<NoArgs, form>> : form \in StateForms}
    \cup {<<[key |-> Some(StrSecret)], [key |-> None, action |-> Some(StrOpen)]>>}
ResetReqs ==
    {<<NoArgs, [key |-> k]>> : k \in KeyInputs}
    \cup {<<[key |-> Some(StrSecret)], [key |-> None]>>}

\* The rounds whose page and outcome page are requested
GetArgs == {0, 1, OddRound, NumRounds, NumRounds + 1}

\* The requests of the straight walk
Straight ==
    \/ Start(PlainR)
    \/ SurveyPost(PlainSurveyForm)
    \/ Instructions
    \/ RoundPost(FirstMissing(current_state.rounds), PlainRoundForm, FALSE)
    \/ Results
    \/ \E action \in {StrOpen, StrClose} :
         AdminState(NoArgs, [key |-> Some(StrSecret), action |-> Some(action)])
    \/ AdminReset(NoArgs, [key |-> Some(StrSecret)])

\* A detour is possible
OffWalk == detours < MaxDetours

\* Any request
Detour ==
    \/ OffWalk /\ Index
    \/ OffWalk /\ \E R \in Rounds : Start(R)
    \/ OffWalk /\ SurveyGet
    \/ OffWalk /\ \E form \in SurveyForms : SurveyPost(form)
    \/ OffWalk /\ Instructions
    \/ OffWalk /\ \E n \in GetArgs : RoundGet(n)
    \/ OffWalk /\ \E p \in RoundPosts : RoundPost(p[1], p[2], p[3])
    \/ OffWalk /\ \E n \in GetArgs : RoundOutcome(n)
    \/ OffWalk /\ \E args \in KeyArgs : AdminHome(args)
    \/ OffWalk /\ \E r \in StateReqs : AdminState(r[1], r[2])
    \/ OffWalk /\ \E r \in ResetReqs : AdminReset(r[1], r[2])
    \/ OffWalk /\ \E args \in KeyArgs : AdminExport(args)
    \/ OffWalk /\ \E args \in KeyArgs : AdminStats(args)

Next == Straight \/ Detour

Spec == Init /\ [][Next]_vars

-----------------------------------------------------------------------------
(* Specification of /admin/stats.json over tables of finalized rows *)

\* The x of rounds 1 and 2 of the rows; the other rounds have the plain x
HistXs == {0, 4, 5, 19, 20, 99, 100}

PlainX == Clamp(ParseX(PlainRoundForm.x))

\* The record round_page leaves for round n, x and a lost draw
StatRecord(n, x) ==
    [round |-> n, x |-> x, win |-> FALSE, wealth |-> Wealth(x, FALSE), time_ms |-> 0]

\* The row results() writes for a session with these ten rounds
StatRow(x1, x2) ==
    ParticipantRow([rounds |-> [n \in Rounds |->
                                   StatRecord(n, IF n = 1 THEN x1 ELSE IF n = 2 THEN x2
                                                 ELSE PlainX)],
                    R |-> Some(PlainR),
                    demographics |-> EmptyDict])

StatRows == {StatRow(x1, x2) : x1, x2 \in HistXs}

\* No row, one row, two rows
StatTables ==
    {<<>>} \cup {1 :> r : r \in StatRows}
    \cup {(1 :> r1) @@ (2 :> r2) : r1, r2 \in StatRows}

InitStats ==
    /\ ADMIN_KEY = Some(StrSecret)
    /\ experiment_state = [is_open |-> TRUE, title |-> Title]
    /\ participants \in StatTables
    /\ session = EmptySession
    /\ uuids = Cardinality(DOMAIN participants)
    /\ drawn = [p \in DOMAIN participants |-> PlainR]
    /\ instructed = FALSE
    /\ finalized = None
    /\ deleted = {}
    /\ detours = 0
    /\ request = Req("", "", 0, NoArgs, NoForm)
    /\ response = Abort(0)

NextStats == \E args \in KeyArgs : AdminStats(args)

SpecStats == InitStats /\ [][NextStats]_vars

-----------------------------------------------------------------------------
(* Specification of a participant who goes where the pages send them:      *)
(* /results, the round /results redirects to, that round's outcome page,   *)
(* then the round of the page's next link or /results again.               *)

\* The round sequence after plain, lost submissions of the rounds in S
RECURSIVE RecordsFor(_)
RecordsFor(S) ==
    IF S = {} THEN <<>>
    ELSE LET n == CHOOSE m \in S : \A o \in S : m <= o
         IN  <<StatRecord(n, PlainX)>> \o RecordsFor(S \ {n})

\* A session after /start and submissions of any rounds, before any /results
InitFollow ==
    /\ ADMIN_KEY = None
    /\ experiment_state = [is_open |-> TRUE, title |-> Title]
    /\ participants = <<>>
    /\ \E S \in SUBSET Rounds :
           session = [pid |-> Some(1),
                      state |-> Some([DefaultState EXCEPT !.R = Some(PlainR),
                                                          !.rounds = RecordsFor(S)]),
                      flashes |-> 0]
    /\ uuids = 1
    /\ drawn = <<PlainR>>
    /\ instructed = FALSE
    /\ finalized = None
    /\ deleted = {}
    /\ detours = 0
    /\ request = Req("", "", 0, NoArgs, NoForm)
    /\ response = Abort(0)

\* The round the last response sends the participant to, 0 when none: the
\* target of a redirect to a round page, or the next link of an outcome page
SentTo ==
    IF response.status = 302 /\ response.location.endpoint = "round_page"
    THEN response.location.n
    ELSE IF response.body.template = "outcome.html"
            /\ response.body.next_url.endpoint = "round_page"
    THEN response.body.next_url.n
    ELSE 0

\* The participant asks for /results: at first, and from an outcome page
FollowResults ==
    /\ response = Abort(0) \/ response.body.template = "outcome.html"
    /\ results
    /\ UNCHANGED detours

\* The participant submits the round they were sent to
FollowRound ==
    /\ SentTo # 0
    /\ \E win \in BOOLEAN : round_page(SentTo, PlainRoundForm, win)
    /\ UNCHANGED detours

\* The browser follows the redirect to the outcome page
FollowOutcome ==
    /\ response.status = 302 /\ response.location.endpoint = "round_outcome"
    /\ round_outcome(response.location.n)
    /\ UNCHANGED detours

NextFollow == FollowResults \/ FollowRound \/ FollowOutcome

\* The participant never stops while a page sends them somewhere
SpecFollow == InitFollow /\ [][NextFollow]_vars /\ WF_vars(NextFollow)

-----------------------------------------------------------------------------
(* Properties *)

SessionRounds == current_state.rounds

\* The record of round n in the session (there is one)
RecordOf(n) == SessionRounds[CHOOSE i \in 1..Len(SessionRounds) : SessionRounds[i].round = n]

IsRoundPost == request.endpoint = "round_page" /\ request.method = "POST"

\* The last request was a round submission, and it was accepted
RoundAccepted == IsRoundPost /\ response = Redirect("round_outcome", request.n)

\* C1: the session's round sequence has at most 10 records, is strictly
\* ascending by round number (so it is sorted and holds no round twice), and
\* after an accepted submission for round n it holds exactly one record of
\* round n: a resubmission replaces the record.
C1_RoundSequence ==
    /\ Len(SessionRounds) <= NumRounds
    /\ \A i, j \in 1..Len(SessionRounds) :
           i < j => SessionRounds[i].round < SessionRounds[j].round
    /\ RoundAccepted =>
           Cardinality({i \in 1..Len(SessionRounds) : SessionRounds[i].round = request.n}) = 1

\* C1 witness: round 2 was submitted again, with another x, when three rounds
\* were recorded; its record holds the new x and is still the second of three.
C1_Witness ==
    /\ RoundAccepted /\ request.n = 2 /\ request.form.x = Some(Str150)
    /\ Len(SessionRounds) = 3
    /\ SessionRounds[2].round = 2 /\ SessionRounds[2].x = MaxX

\* C2: /results of a session with a participant id and fewer than 10 rounds
\* redirects to the first round in 1..10 that has no record.
C2_ResultsRedirect ==
    (/\ request.endpoint = "results" /\ session.pid # None
     /\ Len(SessionRounds) < NumRounds)
    => response = Redirect("round_page", FirstMissing(SessionRounds))

\* C3: a submission for round n is accepted only after the survey has been
\* recorded, the instructions have been visited and rounds 1..n-1 have all
\* been recorded.
C3_StrictOrder ==
    RoundAccepted =>
        /\ Surveyed
        /\ instructed
        /\ \A m \in 1..(request.n - 1) : m \in RoundsOf(SessionRounds)

\* A row as the spec describes a finalized one: ten records, of rounds 1..10
TenRounds(row) ==
    /\ Len(row.rounds) = NumRounds
    /\ {row.rounds[i].round : i \in 1..Len(row.rounds)} = Rounds

\* C4: every persisted row holds exactly ten records whose round numbers are
\* exactly 1..10, and a row is created or changed only by /results of the
\* session with that participant id when all ten rounds are present.
C4_WrittenOnCompletion ==
    [][/\ \A p \in DOMAIN participants' : TenRounds(participants'[p])
       /\ \A p \in DOMAIN participants' :
              (p \notin DOMAIN participants \/ participants'[p] # participants[p])
              => /\ request'.endpoint = "results"
                 /\ session.pid = Some(p)
                 /\ RoundsOf(SessionRounds) = Rounds]_vars

\* C4 witness: /results has just written the row of the session
C4_Witness ==
    /\ request.endpoint = "results" /\ response.status = 200
    /\ session.pid # None /\ Get(session.pid) \in DOMAIN participants
    /\ participants[Get(session.pid)].rounds = SessionRounds

\* C5: for every persisted row, chosen_round is the R that /start drew for
\* that participant id, it lies in 1..10, and final_payoff is the wealth of
\* the row's record of that round; and the session of a participant id still
\* holds the R drawn at its start.
C5_FinalPayoff ==
    /\ \A p \in DOMAIN participants :
           LET row == participants[p]
           IN  /\ drawn[p] \in Rounds
               /\ row.chosen_round = drawn[p]
               /\ \E i \in 1..Len(row.rounds) :
                      /\ row.rounds[i].round = drawn[p]
                      /\ row.final_payoff = row.rounds[i].wealth
    /\ session.pid # None =>
           /\ session.state # None
           /\ Get(session.state).R = Some(drawn[Get(session.pid)])

\* C5 witness: a row whose chosen round is not round 1 and whose final payoff
\* differs from the wealth of every other round
C5_Witness ==
    \E p \in DOMAIN participants :
        LET row == participants[p]
        IN  /\ row.chosen_round # 1
            /\ \A i \in 1..Len(row.rounds) :
                   row.rounds[i].round # row.chosen_round
                   => row.rounds[i].wealth # row.final_payoff

AdminEndpoints ==
    {"admin_home", "admin_state", "admin_reset", "admin_export", "admin_stats_json"}

\* The key a request supplies: in the query string, else in the form, else ""
SuppliedKey(req) ==
    IF req.args.key # None /\ Get(req.args.key) # StrEmpty THEN Get(req.args.key)
    ELSE IF req.form.key # None /\ Get(req.form.key) # StrEmpty THEN Get(req.form.key)
    ELSE StrEmpty

\* A secret is configured and the supplied key equals it
KeyMatches(req) ==
    /\ ADMIN_KEY # None /\ Get(ADMIN_KEY) # StrEmpty
    /\ SuppliedKey(req) = Get(ADMIN_KEY)

\* C6: an admin request whose key is not the configured secret, or that is
\* made while no secret is configured, gets 403 and leaves the configuration
\* row and the participants unchanged.
C6_AdminForbidden ==
    [][(request'.endpoint \in AdminEndpoints /\ ~KeyMatches(request'))
       => /\ response' = Abort(403)
          /\ experiment_state' = experiment_state
          /\ participants' = participants]_vars

\* C6 witness: the secret is configured as the empty string and a request
\* to close the experiment with the empty key was rejected
C6_Witness ==
    /\ ADMIN_KEY = Some(StrEmpty)
    /\ request.endpoint = "admin_state" /\ request.form.key = Some(StrEmpty)
    /\ response.status = 403
    /\ experiment_state.is_open

\* An age field int() cannot be applied to, or that is empty or absent
AgeUnusable(v) == v = None \/ Get(v) = StrEmpty \/ PyInt(Get(v)) = None

\* C7: a survey submission of a session with a participant id never ends in
\* an error, and with an empty, absent or malformed age it is accepted with
\* age = null.
C7_SurveyAge ==
    (request.endpoint = "survey" /\ request.method = "POST" /\ session.pid # None)
    => /\ response.status # 500
       /\ AgeUnusable(request.form.age)
          => /\ response = Redirect("instructions", 0)
             /\ Surveyed
             /\ Get(current_state.demographics).age = None

TimeUnusable(v) == v = None \/ Get(v) = StrEmpty \/ PyInt(Get(v)) = None

\* C8: a round submission (participant id present, n in 1..10) never ends in
\* an error, and with a missing or invalid time_ms it is accepted and the
\* record of the round has time_ms = 0.
C8_RoundTime ==
    (IsRoundPost /\ session.pid # None /\ request.n \in Rounds)
    => /\ response.status # 500
       /\ TimeUnusable(request.form.time_ms)
          => /\ RoundAccepted
             /\ RecordOf(request.n).time_ms = 0

\* The integer an x field stands for: 0 when absent, empty or non-numeric
InputX(v) ==
    IF v = None \/ Get(v) = StrEmpty \/ PyInt(Get(v)) = None THEN 0
    ELSE Get(PyInt(Get(v)))

AllRecords ==
    {SessionRounds[i] : i \in 1..Len(SessionRounds)}
    \cup UNION {{participants[p].rounds[i] : i \in 1..Len(participants[p].rounds)} :
                p \in DOMAIN participants}

\* C9: every record of the session and of the persisted rows has x in
\* [0,100], wealth = 100 - x when lost and 100 + 1.5 x when won (in half
\* units: 200 - 2x and 200 + 3x), and wealth in [0,250]; and the record an
\* accepted submission leaves holds the submitted x clamped to [0,100].
C9_ClampAndWealth ==
    /\ \A r \in AllRecords :
           /\ r.x \in 0..100
           /\ r.wealth = IF r.win THEN 200 + 3 * r.x ELSE 200 - 2 * r.x
           /\ r.wealth \in 0..500
    /\ RoundAccepted =>
           LET i == InputX(request.form.x)
           IN  RecordOf(request.n).x = IF i < 0 THEN 0 ELSE IF i > 100 THEN 100 ELSE i

\* C9 witness: a won submission with a fractional wealth (x = 25, 137.5)
C9_Witness ==
    /\ RoundAccepted /\ request.form.x = Some(Str25)
    /\ RecordOf(request.n).win
    /\ RecordOf(request.n).wealth = 275

\* C10: /start while is_open is false redirects to the entry screen and
\* leaves the participant id, the session state, the allocated ids and both
\* tables unchanged; and an id is allocated only while is_open is true.
C10_StartGate ==
    [][/\ (request'.endpoint = "start" /\ ~experiment_state.is_open)
          => /\ response' = Redirect("index", 0)
             /\ uuids' = uuids
             /\ session'.pid = session.pid
             /\ session'.state = session.state
             /\ participants' = participants
             /\ experiment_state' = experiment_state
       /\ uuids' # uuids => experiment_state.is_open]_vars

\* C10 witness: a session with a participant id and recorded rounds asked
\* for /start while the experiment was closed, and kept them
C10_Witness ==
    /\ request.endpoint = "start" /\ response = Redirect("index", 0)
    /\ ~experiment_state.is_open
    /\ session.pid # None /\ SessionRounds # <<>>

\* The last request was /start, and it was let through
Started(req, resp) == req.endpoint = "start" /\ resp = Redirect("survey", 0)

\* C11: after every /start that is let through, whatever the session held
\* before, the session holds a participant id that was never allocated
\* before and that has no row, a chosen round in 1..10, no round record and
\* no demographics; and the persisted rows are unchanged.
C11_StartResets ==
    [][Started(request', response')
       => /\ session'.pid # None
          /\ Get(session'.pid) \notin 1..uuids
          /\ Get(session'.pid) \notin DOMAIN participants'
          /\ session'.state # None
          /\ Get(session'.state).R # None
          /\ Get(Get(session'.state).R) \in Rounds
          /\ Get(session'.state).rounds = <<>>
          /\ Get(session'.state).demographics = EmptyDict
          /\ participants' = participants]_vars

\* C11 witness: /start of a session that had been finalized; the earlier
\* row is still there and the session is empty under a new id
C11_Witness ==
    /\ Started(request, response)
    /\ session.pid = Some(2)
    /\ 1 \in DOMAIN participants /\ TenRounds(participants[1])
    /\ SessionRounds = <<>> /\ ~Surveyed

\* The last request was /results, and it finalized the session
Finalizes(req, resp) == req.endpoint = "results" /\ resp.status = 200

\* C12: when /results finalizes a session that an earlier /results had
\* finalized, with no accepted round submission and no /start of the session
\* in between, the row of the session (demographics, chosen round, rounds,
\* average_x, final_payoff) and the number of rows are what the earlier
\* request left.
C12_ResultsIdempotent ==
    [][(Finalizes(request', response') /\ finalized # None)
       => /\ participants'[Get(session.pid)] = Get(finalized).row
          /\ Cardinality(DOMAIN participants') = Get(finalized).rows]_vars

\* The part of a row that comes from the rounds
Outcome(row) ==
    [rounds |-> row.rounds, average_x |-> row.average_x, final_payoff |-> row.final_payoff]

\* C13: once the session's participant id has a row, no request changes the
\* rounds (win flags included), the average_x or the final_payoff of that
\* row for as long as the row exists.
C13_FinalizedOnce ==
    [][\A p \in DOMAIN participants \cap DOMAIN participants' :
           session.pid = Some(p) => Outcome(participants'[p]) = Outcome(participants[p])]_vars

\* C15: an authorized /admin/reset leaves no row and leaves the
\* configuration row as it was, and the participant id of a session whose
\* row a reset deleted has no row in any later state.
C15_ResetIrreversible ==
    /\ (request.endpoint = "admin_reset" /\ response.status = 302)
       => /\ DOMAIN participants = {}
          /\ experiment_state.title = Title
    /\ DOMAIN participants \cap deleted = {}

\* C14: is_open changes only through /admin/state with the action open or
\* close (any other action leaves it), and, whatever is_open is, a session
\* with a participant id has its survey recorded, its round submissions
\* recorded and, with all ten rounds, its row written by /results.
C14_OpenGatesOnlyStart ==
    [][/\ experiment_state' # experiment_state
          => /\ request'.endpoint = "admin_state"
             /\ request'.form.action \in {Some(StrOpen), Some(StrClose)}
       /\ (request'.endpoint = "survey" /\ request'.method = "POST"
           /\ session.pid # None /\ SurveyAge(request'.form.age).ok)
          => /\ response' = Redirect("instructions", 0)
             /\ Get(session'.state).demographics # EmptyDict
       /\ (request'.endpoint = "round_page" /\ request'.method = "POST"
           /\ session.pid # None /\ request'.n \in Rounds
           /\ ParseTime(request'.form.time_ms) # None)
          => /\ response' = Redirect("round_outcome", request'.n)
             /\ request'.n \in RoundsOf(Get(session'.state).rounds)
       /\ (request'.endpoint = "results" /\ session.pid # None
           /\ Len(SessionRounds) = NumRounds)
          => /\ response'.status = 200
             /\ Get(session.pid) \in DOMAIN participants'
             /\ participants'[Get(session.pid)].rounds = SessionRounds]_vars

\* C14 witness: the experiment is closed, and /results has just written the
\* row of the session
C14_Witness ==
    /\ ~experiment_state.is_open
    /\ Finalizes(request, response)
    /\ Get(session.pid) \in DOMAIN participants
    /\ finalized = Some([row |-> participants[Get(session.pid)], rows |-> 1])

ParticipantEndpoints == {"survey", "instructions", "round_page", "round_outcome", "results"}

\* C16: a request to /survey, /instructions, /round/n with n in 1..10,
\* /round/n/outcome or /results by a session without a participant id is
\* redirected to the entry screen, and leaves the session and both tables
\* unchanged.
C16_NoPidRedirects ==
    [][(/\ request'.endpoint \in ParticipantEndpoints
        /\ request'.endpoint = "round_page" => request'.n \in Rounds
        /\ session.pid = None)
       => /\ response' = Redirect("index", 0)
          /\ session' = session
          /\ participants' = participants
          /\ experiment_state' = experiment_state]_vars

\* C16 witness: a round submission by a session without a participant id
\* was redirected to the entry screen, and the session is still empty
C16_Witness ==
    /\ IsRoundPost /\ request.n \in Rounds
    /\ session.pid = None /\ session.state = None
    /\ response = Redirect("index", 0)

IsRoundRequest(req) == req.endpoint = "round_page" /\ req.n \notin Rounds

\* C17: every GET or POST to /round/n with n outside 1..10 is answered with
\* 404 and leaves the session's round sequence unchanged, and no record of
\* the session or of a persisted row has a round number outside 1..10.
C17_OutOfRange ==
    [][/\ IsRoundRequest(request')
          => /\ response' = Abort(404)
             /\ session'.state = session.state
       /\ \A r \in AllRecords' : r.round \in Rounds]_vars

\* C17 as amended: with a participant id in the session such a request is
\* answered with 404, without one it is redirected to the entry screen;
\* either way the session is unchanged, and no record of the session or of
\* a persisted row has a round number outside 1..10.
C17_OutOfRangeWithPid ==
    [][/\ IsRoundRequest(request')
          => /\ response' = IF session.pid # None THEN Abort(404) ELSE Redirect("index", 0)
             /\ session' = session
       /\ \A r \in AllRecords' : r.round \in Rounds]_vars

\* C17 witness: a submission for round 11 by a session that has recorded
\* rounds was answered with 404
C17_Witness ==
    /\ IsRoundPost /\ request.n = NumRounds + 1
    /\ response = Abort(404)
    /\ SessionRounds # <<>>

BinWidths == {5, 10, 20}

\* The histogram of width w in the response
HistOf(w) ==
    IF w = 5 THEN response.body.hist_5
    ELSE IF w = 10 THEN response.body.hist_10
    ELSE response.body.hist_20

\* The lower bounds of the bins of width w
BinStarts(w) == {b \in 0..MaxX : b % w = 0}

\* How many decisions of the persisted rows have their x in [b, b + w)
InBin(b, w) ==
    Cardinality({pi \in (DOMAIN participants) \X Rounds :
                    /\ pi[2] <= Len(participants[pi[1]].rounds)
                    /\ participants[pi[1]].rounds[pi[2]].x \in b..(b + w - 1)})

RECURSIVE SumCounts(_)
SumCounts(h) == IF h = <<>> THEN 0 ELSE Head(h).count + SumCounts(Tail(h))

\* C18: for each bin width 5, 10, 20 the histogram of /admin/stats.json has
\* exactly one entry for every bin [b, b + width) that holds a decision and
\* none for the others, each with the number of decisions in the bin, in
\* ascending order of b; its counts sum to the number of rounds of all
\* rows, which is the reported decision_count.
C18_Histogram ==
    (request.endpoint = "admin_stats_json" /\ response.status = 200)
    => /\ response.body.decision_count = DecisionCount(participants)
       /\ \A w \in BinWidths :
              LET h == HistOf(w)
              IN  /\ \A i \in 1..Len(h) :
                         \E b \in BinStarts(w) :
                             /\ h[i].bin = BinKey(b, w)
                             /\ h[i].count = InBin(b, w)
                             /\ h[i].count > 0
                  /\ \A b \in BinStarts(w) :
                         InBin(b, w) > 0
                         => Cardinality({i \in 1..Len(h) : h[i].bin = BinKey(b, w)}) = 1
                  /\ \A i, j \in 1..Len(h) : i < j => Low(h[i].bin) < Low(h[j].bin)
                  /\ SumCounts(h) = response.body.decision_count

\* C18 witness: two rows, with x = 0, 100 and x = 4, 99 in rounds 1 and 2;
\* the histogram of width 10 has the bins 0-9, 40-49, 90-99 and 100-109 in
\* this order, with 2, 16, 1 and 1 decisions
C18_Witness ==
    /\ request.endpoint = "admin_stats_json" /\ response.status = 200
    /\ response.body.decision_count = 2 * NumRounds
    /\ participants[1].rounds[2].x = MaxX
    /\ response.body.hist_10 = <<[bin |-> BinKey(0, 10), count |-> 2],
                                 [bin |-> BinKey(40, 10), count |-> 2 * NumRounds - 4],
                                 [bin |-> BinKey(90, 10), count |-> 1],
                                 [bin |-> BinKey(100, 10), count |-> 1]>>

\* The records of round m in a round sequence
RecordsOf(rounds, m) == {rounds[i] : i \in {j \in 1..Len(rounds) : rounds[j].round = m}}

\* C19: a submission for round n, new or repeated, leaves the records of
\* every other round, the session's participant id, chosen round and
\* demographics, and both tables as they were.
C19_RoundFrame ==
    [][(request'.endpoint = "round_page" /\ request'.method = "POST")
       => LET before == current_state
              after == current_state'
          IN  /\ \A m \in Rounds \ {request'.n} :
                     RecordsOf(after.rounds, m) = RecordsOf(before.rounds, m)
              /\ Len(after.rounds) \in {Len(before.rounds), Len(before.rounds) + 1}
              /\ session'.pid = session.pid
              /\ after.R = before.R
              /\ after.demographics = before.demographics
              /\ participants' = participants
              /\ experiment_state' = experiment_state]_vars

\* C19 witness: round 2 was submitted again, and won, by a session that has
\* all ten rounds, demographics and a persisted row
C19_Witness ==
    /\ RoundAccepted /\ request.n = 2
    /\ Len(SessionRounds) = NumRounds /\ Surveyed
    /\ RecordOf(2).win
    /\ Get(session.pid) \in DOMAIN participants
    /\ ~participants[Get(session.pid)].rounds[2].win

\* C20: a participant who goes where the pages send them, from any session
\* state with a participant id, eventually has the session finalized by
\* /results.
C20_EventuallyFinalized == <>Finalizes(request, response)

====
